---- MODULE Spec2Model ----
(***************************************************************************)
(* Model of COMPS/scrape_clickcompetitions_all.py: the link extractor, the *)
(* completeness predicate, the metric functions, the report ordering and   *)
(* the orchestrating loop of main().                                       *)
(*                                                                         *)
(* Text is modelled by TLA+ strings, character by character.  Optional     *)
(* values (Python's Optional[...]) are sequences of length at most one:    *)
(* None is <<>> and a present value v is <<v>>.  Money is counted in pence *)
(* and a probability is an exact fraction [num, den].                      *)
(***************************************************************************)
EXTENDS Integers, Sequences, FiniteSets, TLC

VARIABLES
    category,          \* args.category: the configured (name, url) pairs
    use_playwright,    \* args.use_playwright
    max_per_category,  \* args.max_per_category
    pc,                \* position of main()
    ci,                \* index of the category the outer loop is at
    comp_links,        \* comp_links of the current category
    li,                \* index of the url the inner loop is at
    comps,             \* comps of the current category
    all_comps,         \* all_comps
    out,               \* what the combined export wrote, None before it
    session,           \* the URLs requested through session.get, in order
    step,              \* what the last iteration of either loop did
    discovered,        \* what the link extractor returned for each category, in order
    call,              \* a pending call of a pure function: its name and arguments
    ret,               \* the value that call returned, None while pending
    document           \* the report as a browser holds it: its table rows and controls

vars == <<category, use_playwright, max_per_category, pc, ci, comp_links, li,
          comps, all_comps, out, session, step, discovered, call, ret, document, discovered>>

mainVars == <<category, use_playwright, max_per_category, pc, ci, comp_links,
              li, comps, all_comps, out, session, step, discovered>>

----------------------------------------------------------------------------
(* Optional values *)

None == <<>>

Some(v) == <<v>>

IsNone(x) == x = <<>>

Val(x) == x[1]

----------------------------------------------------------------------------
(* Strings *)

\* F applied to the value of x: x is evaluated once, whatever F does with it
Bind(x, F(_)) == CHOOSE y \in {F(v) : v \in {x}} : TRUE

Ch(s, i) == SubSeq(s, i, i)

\* Python's `sub in s`
Contains(s, sub) ==
    Bind(s, LAMBDA t :
        \E i \in 1..(Len(t) - Len(sub) + 1) : SubSeq(t, i, i + Len(sub) - 1) = sub)

\* the least index from i on at which s has a character of cs; 0 when there is none
RECURSIVE FindFrom(_, _, _)
FindFrom(s, cs, i) ==
    IF i > Len(s) THEN 0
    ELSE IF Ch(s, i) \in cs THEN i
    ELSE FindFrom(s, cs, i + 1)

\* Python's s.find(c) for a one-character c, 1-based; 0 when c is not in s
Find(s, c) == Bind(s, LAMBDA t : FindFrom(t, {c}, 1))

\* Python's s.split(c)[0]
SplitFirst(s, c) ==
    Bind(s, LAMBDA t :
        Bind(FindFrom(t, {c}, 1), LAMBDA i : IF i = 0 THEN t ELSE SubSeq(t, 1, i - 1)))

\* Python's s.split(c, 1)[1] when c is in s
SplitRest(s, c) ==
    Bind(s, LAMBDA t : SubSeq(t, FindFrom(t, {c}, 1) + 1, Len(t)))

\* the length of s without its trailing c's
RECURSIVE RStripLen(_, _, _)
RStripLen(s, c, n) ==
    IF n > 0 /\ Ch(s, n) = c THEN RStripLen(s, c, n - 1) ELSE n

\* Python's s.rstrip(c)
RStrip(s, c) == Bind(s, LAMBDA t : SubSeq(t, 1, RStripLen(t, c, Len(t))))

\* the pieces of s between the c's, from index i on; piece starts at index from
RECURSIVE SplitFrom(_, _, _, _)
SplitFrom(s, c, from, i) ==
    IF i > Len(s) THEN <<SubSeq(s, from, Len(s))>>
    ELSE IF Ch(s, i) = c
         THEN <<SubSeq(s, from, i - 1)>> \o SplitFrom(s, c, i + 1, i + 1)
    ELSE SplitFrom(s, c, from, i + 1)

\* Python's s.split(c): the sequence of the pieces between the c's
Split(s, c) == Bind(s, LAMBDA t : SplitFrom(t, c, 1, 1))

\* the parts from index i on, with c between them
RECURSIVE JoinFrom(_, _, _)
JoinFrom(parts, c, i) ==
    IF i > Len(parts) THEN ""
    ELSE IF i = Len(parts) THEN parts[i]
    ELSE parts[i] \o c \o JoinFrom(parts, c, i + 1)

\* Python's c.join(parts)
Join(parts, c) == Bind(parts, LAMBDA ps : JoinFrom(ps, c, 1))

\* The characters of the model's texts in ascending code point order
CodePoints == "#+-./0123456789:=?abcdefghijklmnopqrstuvwxyz"

\* the rank of the one-character string c among CodePoints
Ord(c) == FindFrom(CodePoints, {c}, 1)

\* a < b from index i on, the texts being equal before i
RECURSIVE LessFrom(_, _, _)
LessFrom(a, b, i) ==
    IF i > Len(b) THEN FALSE
    ELSE IF i > Len(a) THEN TRUE
    ELSE IF Ch(a, i) = Ch(b, i) THEN LessFrom(a, b, i + 1)
    ELSE Ord(Ch(a, i)) < Ord(Ch(b, i))

\* Python's a < b on str: lexicographic by code point
StrLess(a, b) == Bind(a, LAMBDA x : Bind(b, LAMBDA y : LessFrom(x, y, 1)))

RECURSIVE SortedStrings(_)
\* Python's sorted(S) for a set of str
SortedStrings(S) ==
    Bind(S, LAMBDA T :
        IF T = {} THEN <<>>
        ELSE Bind(CHOOSE x \in T : \A y \in T \ {x} : StrLess(x, y),
                  LAMBDA m : <<m>> \o SortedStrings(T \ {m})))

----------------------------------------------------------------------------
(* urllib.parse, as far as normalise_url and the link extractor use it.    *)
(* The texts have no ';' (params) and no upper case letters.               *)

SchemeChars == {Ch(CodePoints, i) : i \in 1..Len(CodePoints)} \ {"#", "/", ":", "=", "?"}

Letters == {Ch("abcdefghijklmnopqrstuvwxyz", i) : i \in 1..26}

\* the schemes of urllib.parse.uses_relative and uses_netloc that the texts use
UsesRelative == {"", "http", "https"}

\* urlsplit's scheme test: a ':' preceded by scheme characters only, a letter first;
\* the index of that ':', 0 when the text has no scheme
SchemeEnd(url) ==
    Bind(Find(url, ":"), LAMBDA i :
        IF /\ i > 1
           /\ Ch(url, 1) \in Letters
           /\ \A j \in 1..(i - 1) : Ch(url, j) \in SchemeChars
        THEN i ELSE 0)

\* the end of the netloc of a text that starts with "//": before the first of "/?#"
NetlocEnd(s) ==
    Bind(FindFrom(s, {"/", "?", "#"}, 3), LAMBDA i : IF i = 0 THEN Len(s) ELSE i - 1)

\* the path, query and fragment of what follows the netloc
SplitPath(rest) ==
    Bind(SplitFirst(rest, "#"), LAMBDA nofrag :
        [path |-> SplitFirst(nofrag, "?"),
         query |-> IF Find(nofrag, "?") > 0 THEN SplitRest(nofrag, "?") ELSE "",
         fragment |-> IF Find(rest, "#") > 0 THEN SplitRest(rest, "#") ELSE ""])

\* the netloc of what follows the scheme, and the rest split by SplitPath
SplitNetloc(scheme, rest) ==
    IF SubSeq(rest, 1, 2) = "//"
    THEN Bind(NetlocEnd(rest), LAMBDA e :
             Bind(SplitPath(SubSeq(rest, e + 1, Len(rest))), LAMBDA p :
                 [scheme |-> scheme, netloc |-> SubSeq(rest, 3, e), path |-> p.path,
                  query |-> p.query, fragment |-> p.fragment]))
    ELSE Bind(SplitPath(rest), LAMBDA p :
             [scheme |-> scheme, netloc |-> "", path |-> p.path, query |-> p.query,
              fragment |-> p.fragment])

\* urllib.parse.urlparse(url, scheme=default)
urlparse(url, default) ==
    Bind(url, LAMBDA t :
        Bind(SchemeEnd(t), LAMBDA i :
            IF i > 0
            THEN Bind(SubSeq(t, i + 1, Len(t)), LAMBDA rest :
                     SplitNetloc(SubSeq(t, 1, i - 1), rest))
            ELSE SplitNetloc(default, t)))

\* urllib.parse.urlunparse for the schemes of UsesRelative
urlunparse(p) ==
    Bind(p, LAMBDA q :
        (IF q.scheme # "" THEN q.scheme \o ":" ELSE "")
        \o "//" \o q.netloc
        \o (IF q.path # "" /\ Ch(q.path, 1) # "/" THEN "/" ELSE "") \o q.path
        \o (IF q.query # "" THEN "?" \o q.query ELSE "")
        \o (IF q.fragment # "" THEN "#" \o q.fragment ELSE ""))

\* urljoin's segments[1:-1] = filter(None, segments[1:-1])
DropInnerEmpty(segs) ==
    Bind(segs, LAMBDA sg :
        IF Len(sg) <= 2 THEN sg
        ELSE <<sg[1]>> \o SelectSeq(SubSeq(sg, 2, Len(sg) - 1), LAMBDA x : x # "")
             \o <<sg[Len(sg)]>>)

\* urljoin's loop over the segments from index i on: '..' pops, '.' is skipped
RECURSIVE ResolveDots(_, _, _)
ResolveDots(segs, i, acc) ==
    IF i > Len(segs) THEN acc
    ELSE Bind(IF segs[i] = ".." THEN SubSeq(acc, 1, Len(acc) - 1)
              ELSE IF segs[i] = "." THEN acc
              ELSE Append(acc, segs[i]),
              LAMBDA acc2 : ResolveDots(segs, i + 1, acc2))

\* the path urljoin gives a relative reference with a non-empty path
JoinedPath(bpath, path) ==
    Bind(Split(bpath, "/"), LAMBDA base_parts0 :
    Bind(IF base_parts0[Len(base_parts0)] # ""
         THEN SubSeq(base_parts0, 1, Len(base_parts0) - 1)
         ELSE base_parts0, LAMBDA base_parts :
    Bind(IF SubSeq(path, 1, 1) = "/"
         THEN Split(path, "/")
         ELSE DropInnerEmpty(base_parts \o Split(path, "/")), LAMBDA segments :
    Bind(ResolveDots(segments, 1, <<>>), LAMBDA resolved0 :
    Bind(Join(IF segments[Len(segments)] \in {".", ".."}
              THEN Append(resolved0, "")
              ELSE resolved0, "/"), LAMBDA joined :
        IF joined = "" THEN "/" ELSE joined)))))

\* urllib.parse.urljoin(base, url) for non-empty base and url
urljoin(base, url) ==
    Bind(urlparse(base, ""), LAMBDA b :
    Bind(urlparse(url, b.scheme), LAMBDA u :
        IF u.scheme # b.scheme \/ u.scheme \notin UsesRelative THEN url
        ELSE IF u.netloc # "" THEN urlunparse(u)
        ELSE IF u.path = ""
             THEN urlunparse([scheme |-> u.scheme, netloc |-> b.netloc, path |-> b.path,
                              query |-> IF u.query = "" THEN b.query ELSE u.query,
                              fragment |-> u.fragment])
        ELSE urlunparse([scheme |-> u.scheme, netloc |-> b.netloc,
                         path |-> JoinedPath(b.path, u.path),
                         query |-> u.query, fragment |-> u.fragment])))

normalise_url(base, href) == urljoin(base, href)

----------------------------------------------------------------------------
(* Link extraction *)

DetailMarker == "/competition/"

CategoryMarker == "/competition-category/"

CanonicalKeepsSlashes(full) == SplitFirst(SplitFirst(full, "#"), "?") \o "/"

\* the text kept for one resolved link: query and fragment stripped, one trailing slash
Canonical(full) == RStrip(SplitFirst(SplitFirst(full, "#"), "?"), "/") \o "/"

\* the loop over the anchors: the set `links` after it.  soup is the set of the
\* href values of the document's anchors
LinkSet(category_url, soup) ==
    Bind(urlparse(category_url, "").netloc, LAMBDA category_host :
        UNION { Bind(href, LAMBDA h :
                    IF ~Contains(h, DetailMarker) THEN {}
                    ELSE IF Contains(h, CategoryMarker) THEN {}
                    ELSE Bind(normalise_url(category_url, h), LAMBDA full :
                             IF urlparse(full, "").netloc # category_host THEN {}
                             ELSE {Canonical(full)}))
                : href \in soup })

extract_competition_links_from_category(category_url, soup) ==
    SortedStrings(LinkSet(category_url, soup))

----------------------------------------------------------------------------
(* Data model *)

\* Competition(category=..., url=...): every other field defaults to None
Competition(cat_name, url) ==
    [category |-> cat_name, url |-> url, title |-> None, ticket_price_gbp |-> None,
     draw_datetime |-> None, sales_end_datetime |-> None, tickets_available |-> None,
     tickets_sold |-> None, cash_alternative_gbp |-> None]

----------------------------------------------------------------------------
(* Calculations.  ticket_price_gbp and spend_gbp are in pence, so that the *)
(* quotient spend / price is exact; a probability is the fraction num/den. *)

Frac(n, d) == [num |-> n, den |-> d]

\* a <= b for fractions with positive denominators
FracLeq(a, b) == a.num * b.den <= b.num * a.den

FracEq(a, b) == a.num * b.den = b.num * a.den

\* Python's int(a / b) for b > 0: the quotient truncated towards zero
TruncDiv(a, b) == IF a >= 0 THEN a \div b ELSE -((-a) \div b)

Min(a, b) == IF a <= b THEN a ELSE b

odds_per_ticket_truthy_dropped(comp) ==
    IF ~IsNone(comp.tickets_available)
    THEN Some(Frac(1, Val(comp.tickets_available)))
    ELSE None

odds_per_ticket(comp) ==
    IF ~IsNone(comp.tickets_available) /\ Val(comp.tickets_available) # 0
       /\ Val(comp.tickets_available) > 0
    THEN Some(Frac(1, Val(comp.tickets_available)))
    ELSE None

win_probability_uncapped(comp, spend_gbp) ==
    IF IsNone(comp.ticket_price_gbp) \/ IsNone(comp.tickets_available) THEN None
    ELSE IF Val(comp.ticket_price_gbp) <= 0 \/ Val(comp.tickets_available) <= 0 THEN None
    ELSE LET n == TruncDiv(spend_gbp, Val(comp.ticket_price_gbp))
         IN IF n <= 0 THEN Some(Frac(0, 1))
            ELSE Some(Frac(n, Val(comp.tickets_available)))

win_probability_for_spend(comp, spend_gbp) ==
    IF ~(/\ ~IsNone(comp.ticket_price_gbp) /\ Val(comp.ticket_price_gbp) # 0
         /\ ~IsNone(comp.tickets_available) /\ Val(comp.tickets_available) # 0)
    THEN None
    ELSE IF Val(comp.ticket_price_gbp) <= 0 \/ Val(comp.tickets_available) <= 0 THEN None
    ELSE LET n == TruncDiv(spend_gbp, Val(comp.ticket_price_gbp))
         IN IF n <= 0 THEN Some(Frac(0, 1))
            ELSE Some(Frac(Min(n, Val(comp.tickets_available)),
                           Val(comp.tickets_available)))

\* pence
company_revenue_gbp(comp) ==
    IF IsNone(comp.ticket_price_gbp) \/ IsNone(comp.tickets_available) THEN None
    ELSE Some(Val(comp.ticket_price_gbp) * Val(comp.tickets_available))

\* the spends the exports evaluate, 10.0 and 20.0 pounds, in pence
Spend10 == 1000

Spend20 == 2000

----------------------------------------------------------------------------
(* The interactive report's ordering *)

sort_key_ascending(c) ==
    LET p10 == win_probability_for_spend(c, Spend10)
    IN [neg_p10 |-> IF IsNone(p10) \/ Val(p10).num = 0 THEN Frac(0, 1)
                    ELSE Val(p10),
        rev_val |-> company_revenue_gbp(c)]

\* (-p10, rev_val): neg_p10 holds the negated fraction, rev_val None is float("inf")
sort_key(c) ==
    LET p10 == win_probability_for_spend(c, Spend10)
    IN [neg_p10 |-> IF IsNone(p10) \/ Val(p10).num = 0 THEN Frac(0, 1)
                    ELSE Frac(-(Val(p10).num), Val(p10).den),
        rev_val |-> company_revenue_gbp(c)]

\* a < b for rev_val, None being float("inf")
RevLess(a, b) == ~IsNone(a) /\ (IsNone(b) \/ Val(a) < Val(b))

\* Python's k1 < k2 on the tuples sort_key returns
KeyLess(k1, k2) ==
    Bind(k1, LAMBDA a : Bind(k2, LAMBDA b :
        \/ ~FracLeq(b.neg_p10, a.neg_p10)
        \/ FracEq(a.neg_p10, b.neg_p10) /\ RevLess(a.rev_val, b.rev_val)))

\* the list with x put before the first element from index i on whose key is
\* greater than x's
RECURSIVE InsertByKey(_, _, _)
InsertByKey(sorted, x, i) ==
    IF i > Len(sorted) THEN Append(sorted, x)
    ELSE IF KeyLess(sort_key(x), sort_key(sorted[i]))
         THEN SubSeq(sorted, 1, i - 1) \o <<x>> \o SubSeq(sorted, i, Len(sorted))
    ELSE InsertByKey(sorted, x, i + 1)

\* the elements of todo from index i on, inserted one by one into acc
RECURSIVE StableSort(_, _, _)
StableSort(todo, i, acc) ==
    IF i > Len(todo) THEN acc
    ELSE Bind(InsertByKey(acc, todo[i], 1), LAMBDA acc2 : StableSort(todo, i + 1, acc2))

\* sorted(comps, key=sort_key): stable, ascending by key
sorted_comps(cs) == Bind(cs, LAMBDA todo : StableSort(todo, 1, <<>>))

----------------------------------------------------------------------------
(* Static extraction and the Playwright fallback.  A page is given by what *)
(* each rule's pattern captures in its text, None where it does not match: *)
(* h1 the heading text, price the "PER ENTRY" amount in pence, avail the   *)
(* "tickets available" number, sold the pair <<X, Y>> of "Tickets Sold: X  *)
(* of Y", cash the "Cash Alternative" amount in pence, draw and sales_end  *)
(* the rest of the "Live Draw" and "Ticket sales end" lines.               *)

Page(h1, price, avail, sold, cash, draw, sales_end) ==
    [h1 |-> h1, price |-> price, avail |-> avail, sold |-> sold, cash |-> cash,
     draw |-> draw, sales_end |-> sales_end]

extract_comp_details_static_fills_falsy(cat_name, url, soup) ==
    [Competition(cat_name, url) EXCEPT
        !.title = soup.h1,
        !.ticket_price_gbp = soup.price,
        !.tickets_available =
            IF ~IsNone(soup.sold) /\ (IsNone(soup.avail) \/ Val(soup.avail) = 0)
            THEN Some(Val(soup.sold)[2])
            ELSE soup.avail,
        !.tickets_sold = IF ~IsNone(soup.sold) THEN Some(Val(soup.sold)[1]) ELSE None,
        !.cash_alternative_gbp = soup.cash,
        !.draw_datetime = soup.draw,
        !.sales_end_datetime = soup.sales_end]

extract_comp_details_static(cat_name, url, soup) ==
    [Competition(cat_name, url) EXCEPT
        !.title = soup.h1,
        !.ticket_price_gbp = soup.price,
        !.tickets_available =
            IF ~IsNone(soup.avail) THEN soup.avail
            ELSE IF ~IsNone(soup.sold) THEN Some(Val(soup.sold)[2])
            ELSE None,
        !.tickets_sold = IF ~IsNone(soup.sold) THEN Some(Val(soup.sold)[1]) ELSE None,
        !.cash_alternative_gbp = soup.cash,
        !.draw_datetime = soup.draw,
        !.sales_end_datetime = soup.sales_end]

is_comp_complete_title_unchecked(comp) ==
    /\ ~IsNone(comp.ticket_price_gbp)
    /\ (~IsNone(comp.tickets_available) \/ ~IsNone(comp.tickets_sold))

is_comp_complete(comp) ==
    /\ ~IsNone(comp.title)
    /\ ~IsNone(comp.ticket_price_gbp)
    /\ (~IsNone(comp.tickets_available) \/ ~IsNone(comp.tickets_sold))

\* page is what the rendered page's text gives the same rules
extract_comp_details_playwright(cat_name, url, page) ==
    [Competition(cat_name, url) EXCEPT
        !.title = page.h1,
        !.ticket_price_gbp = page.price,
        !.tickets_available =
            IF ~IsNone(page.avail) THEN page.avail
            ELSE IF ~IsNone(page.sold) THEN Some(Val(page.sold)[2])
            ELSE None,
        !.tickets_sold = IF ~IsNone(page.sold) THEN Some(Val(page.sold)[1]) ELSE None,
        !.cash_alternative_gbp = page.cash,
        !.draw_datetime = page.draw,
        !.sales_end_datetime = page.sales_end]

----------------------------------------------------------------------------
(* The two ticket rules on a page's text, re.search with flags=re.I: a    *)
(* number, optional whitespace, "tickets", optional whitespace,            *)
(* "available"; and "Tickets", "Sold:", a number, "of", a number, with     *)
(* optional whitespace between them. A number is a digit followed by a     *)
(* greedy run of digits and commas; what follows the run is neither, so a  *)
(* shorter run never lets the rest of a pattern match, and a match at an   *)
(* index is decided by the longest run.                                    *)

UpperCase == "ABCDEFGHIJKLMNOPQRSTUVWXYZ"

LowerCase == "abcdefghijklmnopqrstuvwxyz"

Digits == "0123456789"

\* the characters \s matches in the model's texts
Whitespace == {" ", "\n"}

\* re.I: a character of the text as the patterns' lower case literals see it
LowerCh(c) ==
    Bind(FindFrom(UpperCase, {c}, 1), LAMBDA k : IF k = 0 THEN c ELSE Ch(LowerCase, k))

IsDigit(c) == FindFrom(Digits, {c}, 1) > 0

\* \s*: the least index from i on that holds no whitespace, Len(t) + 1 at the end
RECURSIVE SkipWs(_, _)
SkipWs(t, i) == IF i <= Len(t) /\ Ch(t, i) \in Whitespace THEN SkipWs(t, i + 1) ELSE i

\* [0-9,]*: the last index of the run of digits and commas that follows index i
RECURSIVE RunEnd(_, _)
RunEnd(t, i) ==
    IF i + 1 <= Len(t) /\ (IsDigit(Ch(t, i + 1)) \/ Ch(t, i + 1) = ",")
    THEN RunEnd(t, i + 1) ELSE i

\* a lower case literal of the pattern at index i, letter case ignored
LitAt(t, i, lit) ==
    /\ i + Len(lit) - 1 <= Len(t)
    /\ \A k \in 1..Len(lit) : LowerCh(Ch(t, i + k - 1)) = Ch(lit, k)

\* int(group.replace(",", "")) of the capture t[i..e], acc being the digits read
RECURSIVE ToInt(_, _, _, _)
ToInt(t, i, e, acc) ==
    IF i > e THEN acc
    ELSE IF Ch(t, i) = "," THEN ToInt(t, i + 1, e, acc)
    ELSE Bind(10 * acc + FindFrom(Digits, {Ch(t, i)}, 1) - 1, LAMBDA acc2 :
             ToInt(t, i + 1, e, acc2))

\* the first pattern matched at index i: <<the number captured>>, <<>> when it does
\* not match there
AvailableAt(t, i) ==
    IF ~(i <= Len(t) /\ IsDigit(Ch(t, i))) THEN None
    ELSE Bind(RunEnd(t, i), LAMBDA e :
         Bind(SkipWs(t, e + 1), LAMBDA j :
         IF ~LitAt(t, j, "tickets") THEN None
         ELSE Bind(SkipWs(t, j + 7), LAMBDA k :
              IF ~LitAt(t, k, "available") THEN None
              ELSE Some(ToInt(t, i, e, 0)))))

\* the second pattern matched at index i: <<the pair captured>>, <<>> when it does
\* not match there
SoldAt(t, i) ==
    IF ~LitAt(t, i, "tickets") THEN None
    ELSE Bind(SkipWs(t, i + 7), LAMBDA j :
         IF ~LitAt(t, j, "sold:") THEN None
         ELSE Bind(SkipWs(t, j + 5), LAMBDA a :
              IF ~(a <= Len(t) /\ IsDigit(Ch(t, a))) THEN None
              ELSE Bind(RunEnd(t, a), LAMBDA ae :
                   Bind(SkipWs(t, ae + 1), LAMBDA o :
                   IF ~LitAt(t, o, "of") THEN None
                   ELSE Bind(SkipWs(t, o + 2), LAMBDA b :
                        IF ~(b <= Len(t) /\ IsDigit(Ch(t, b))) THEN None
                        ELSE Some(<<ToInt(t, a, ae, 0),
                                    ToInt(t, b, RunEnd(t, b), 0)>>))))))

\* the least member of a non-empty set of indexes
Least(idx) == CHOOSE i \in idx : \A j \in idx : i <= j

\* m_avail and m_sold of a text: re.search returns the match at the least index,
\* <<>> when no index matches
SearchAvailable(text) ==
    Bind({i \in 1..Len(text) : AvailableAt(text, i) # None}, LAMBDA idx :
        IF idx = {} THEN None ELSE AvailableAt(text, Least(idx)))

SearchSold(text) ==
    Bind({i \in 1..Len(text) : SoldAt(text, i) # None}, LAMBDA idx :
        IF idx = {} THEN None ELSE SoldAt(text, Least(idx)))

\* the page of a text that has no heading and nothing for the other rules
TicketPage(text) ==
    Page(None, None, SearchAvailable(text), SearchSold(text), None, None, None)

----------------------------------------------------------------------------
(* The values main() starts from, shared by every specification *)

\* no report is open in a browser
NoDocument == [tbody |-> <<>>, q |-> "", cat |-> "", sort |-> "p10"]

MainIdle ==
    /\ category = <<>>
    /\ use_playwright = FALSE
    /\ max_per_category = 0
    /\ pc = "idle"
    /\ ci = 1
    /\ comp_links = <<>>
    /\ li = 1
    /\ comps = <<>>
    /\ all_comps = <<>>
    /\ out = None
    /\ session = <<>>
    /\ step = [kind |-> "none"]
    /\ discovered = <<>>

----------------------------------------------------------------------------
(* The link extractor on its own: listing URLs and documents from bounded  *)
(* sets, one call of extract_competition_links_from_category each.         *)

MaxAnchors == 3

ListingUrls ==
    { "https://click.uk/competition-category/cash/",
      "https://click.uk/competition-category/cars",
      "https://other.uk/competition-category/tech/?page=2" }

Hrefs ==
    { "/competition/a/",
      "/competition/a?ref=x",
      "/competition/b#top",
      "https://click.uk/competition/b//",
      "https://other.uk/competition/c/",
      "/competition-category/cash/competition/d/",
      "/about/",
      "x/competition/e",
      "//click.uk/competition/f",
      "../../competition/g",
      "?next=/competition/h" }

Documents == {d \in SUBSET Hrefs : Cardinality(d) <= MaxAnchors}

InitLinks ==
    /\ MainIdle
    /\ document = NoDocument
    /\ \E u \in ListingUrls, d \in Documents :
           call = [fn |-> "extract_competition_links_from_category",
                   category_url |-> u, soup |-> d]
    /\ ret = None

ExtractLinks ==
    /\ call.fn = "extract_competition_links_from_category"
    /\ ret = None
    /\ ret' = Some(extract_competition_links_from_category(call.category_url, call.soup))
    /\ UNCHANGED <<call, mainVars, document>>

SpecLinks == InitLinks /\ [][ExtractLinks]_vars

----------------------------------------------------------------------------
(* The metric functions on their own: a record and a spend from bounded    *)
(* sets, one call of one of the three functions each.                      *)

MaxSpendSteps == 12

\* spends in pence: multiples of ten pence from -10, and the two export points
Spends == {10 * k : k \in (-1)..MaxSpendSteps} \cup {Spend10, Spend20}

MetricPrices == {None, Some(0), Some(30), Some(50), Some(250)}

MetricPools == {None, Some(0), Some(1), Some(3), Some(40)}

MetricComps ==
    {[Competition("cash", "https://click.uk/competition/a/")
         EXCEPT !.ticket_price_gbp = p, !.tickets_available = n] :
       p \in MetricPrices, n \in MetricPools}

InitMetrics ==
    /\ MainIdle
    /\ document = NoDocument
    /\ \/ \E c \in MetricComps : call = [fn |-> "odds_per_ticket", comp |-> c]
       \/ \E c \in MetricComps, s \in Spends :
              call = [fn |-> "win_probability_for_spend", comp |-> c, spend_gbp |-> s]
       \/ \E c \in MetricComps : call = [fn |-> "company_revenue_gbp", comp |-> c]
    /\ ret = None

CallOdds ==
    /\ call.fn = "odds_per_ticket"
    /\ ret = None
    /\ ret' = Some(odds_per_ticket(call.comp))
    /\ UNCHANGED <<call, mainVars, document>>

CallWinProbability ==
    /\ call.fn = "win_probability_for_spend"
    /\ ret = None
    /\ ret' = Some(win_probability_for_spend(call.comp, call.spend_gbp))
    /\ UNCHANGED <<call, mainVars, document>>

CallRevenue ==
    /\ call.fn = "company_revenue_gbp"
    /\ ret = None
    /\ ret' = Some(company_revenue_gbp(call.comp))
    /\ UNCHANGED <<call, mainVars, document>>

NextMetrics == CallOdds \/ CallWinProbability \/ CallRevenue

SpecMetrics == InitMetrics /\ [][NextMetrics]_vars

----------------------------------------------------------------------------
(* write_html's ordering on its own: a bounded list of records, one call.  *)

MaxComps == 3

ReportPrices == {None, Some(100), Some(150), Some(160), Some(2000)}

ReportPools == {None, Some(20)}

ReportComps ==
    {[Competition("cash", "https://click.uk/competition/a/")
         EXCEPT !.ticket_price_gbp = p, !.tickets_available = n] :
       p \in ReportPrices, n \in ReportPools}

RECURSIVE SeqsUpTo(_, _)
\* the sequences over S of length at most n
SeqsUpTo(S, n) ==
    IF n = 0 THEN {<<>>}
    ELSE LET shorter == SeqsUpTo(S, n - 1)
         IN shorter \cup {Append(q, x) : q \in shorter, x \in S}

InitHtml ==
    /\ MainIdle
    /\ document = NoDocument
    /\ \E cs \in SeqsUpTo(ReportComps, MaxComps) : call = [fn |-> "write_html", comps |-> cs]
    /\ ret = None

WriteHtml ==
    /\ call.fn = "write_html"
    /\ ret = None
    /\ ret' = Some(sorted_comps(call.comps))
    /\ UNCHANGED <<call, mainVars, document>>

SpecHtml == InitHtml /\ [][WriteHtml]_vars

----------------------------------------------------------------------------
(* The ticket rules of the two extractors on their own: a page text of a   *)
(* bounded number of lines, one call of either extractor.                  *)

MaxLines == 2

\* lines of a detail page's text, each with what it is written to carry
TicketLines ==
    { [line |-> "100 tickets available", avail |-> Some(100), sold |-> None],
      [line |-> "289,995 Tickets Available", avail |-> Some(289995), sold |-> None],
      [line |-> "0 tickets available", avail |-> Some(0), sold |-> None],
      [line |-> "Tickets Sold: 3 of 200", avail |-> None, sold |-> Some(<<3, 200>>)],
      [line |-> "tickets sold:3,033 of 289,995", avail |-> None,
       sold |-> Some(<<3033, 289995>>)],
      [line |-> "Tickets Sold: 5 of 60 tickets available", avail |-> Some(60),
       sold |-> Some(<<5, 60>>)],
      [line |-> "win a car", avail |-> None, sold |-> None],
      [line |-> "50 entries available", avail |-> None, sold |-> None] }

\* soup.get_text("\n", strip=True) of a page with these lines
TextOf(lines) == Join([i \in 1..Len(lines) |-> lines[i].line], "\n")

InitExtract ==
    /\ MainIdle
    /\ document = NoDocument
    /\ \E f \in {"extract_comp_details_static", "extract_comp_details_playwright"},
          ls \in SeqsUpTo(TicketLines, MaxLines) :
           call = [fn |-> f, category |-> "cash",
                   url |-> "https://click.uk/competition/a/", lines |-> ls]
    /\ ret = None

ExtractStatic ==
    /\ call.fn = "extract_comp_details_static"
    /\ ret = None
    /\ ret' = Some(extract_comp_details_static(call.category, call.url,
                                               TicketPage(TextOf(call.lines))))
    /\ UNCHANGED <<call, mainVars, document>>

ExtractPlaywright ==
    /\ call.fn = "extract_comp_details_playwright"
    /\ ret = None
    /\ ret' = Some(extract_comp_details_playwright(call.category, call.url,
                                                   TicketPage(TextOf(call.lines))))
    /\ UNCHANGED <<call, mainVars, document>>

NextExtract == ExtractStatic \/ ExtractPlaywright

SpecExtract == InitExtract /\ [][NextExtract]_vars

----------------------------------------------------------------------------
(* The report in a browser: the rows write_html wrote, and the script's    *)
(* apply() run by each of the three listeners. A percentage cell is held   *)
(* as the number it shows in units of 0.0001 %, a money cell as pence,     *)
(* a blank cell as <<>>.                                                   *)

\* f"{p*100:.4f}%", "" for None: the percentage to four places, the nearest one
fmt_pct(p) ==
    IF IsNone(p) THEN None
    ELSE Some((2 * Val(p).num * 1000000 + Val(p).den) \div (2 * Val(p).den))

\* f"£{x:,.2f}", "" for None: the pounds before the point and the two digits after
fmt_money(x) == IF IsNone(x) THEN None ELSE Some(<<Val(x) \div 100, Val(x) % 100>>)

\* comp.title or comp.url
safe_title(comp) ==
    IF IsNone(comp.title) \/ Val(comp.title) = "" THEN comp.url ELSE Val(comp.title)

\* the cells of row_html(c) that the script reads; tr is the identity of the
\* element, display its style.display
row_html(c, id) ==
    [tr |-> id,
     category |-> c.category,
     title |-> "\n" \o safe_title(c) \o "\n",
     p10 |-> fmt_pct(win_probability_for_spend(c, Spend10)),
     p20 |-> fmt_pct(win_probability_for_spend(c, Spend20)),
     rev |-> fmt_money(company_revenue_gbp(c)),
     display |-> ""]

\* the page as loaded: rows in write_html's order, controls at their first option
write_html(cs) ==
    Bind(sorted_comps(cs), LAMBDA sorted :
        [tbody |-> [i \in 1..Len(sorted) |-> row_html(sorted[i], i)],
         q |-> "", cat |-> "", sort |-> "p10"])

\* parsePct: 0 for a blank cell
parsePct(s) == IF IsNone(s) THEN 0 ELSE Val(s)

\* parseMoney: NaN, written <<>>, for a blank cell and for an amount of zero
parseMoney(s) ==
    IF IsNone(s) \/ 100 * Val(s)[1] + Val(s)[2] = 0 THEN None
    ELSE Some(100 * Val(s)[1] + Val(s)[2])

\* String.prototype.toLowerCase
RECURSIVE toLowerCase(_)
toLowerCase(s) == IF s = "" THEN "" ELSE LowerCh(Ch(s, 1)) \o toLowerCase(SubSeq(s, 2, Len(s)))

\* String.prototype.trim
RECURSIVE trim(_)
trim(s) ==
    IF s = "" THEN ""
    ELSE IF Ch(s, 1) \in Whitespace THEN trim(SubSeq(s, 2, Len(s)))
    ELSE IF Ch(s, Len(s)) \in Whitespace THEN trim(SubSeq(s, 1, Len(s) - 1))
    ELSE s

\* String.prototype.includes
includes(s, sub) ==
    \E i \in 1..(Len(s) + 1) :
        i + Len(sub) - 1 <= Len(s) /\ SubSeq(s, i, i + Len(sub) - 1) = sub

\* the filter of apply(): the display a row gets
Display(row, query, catVal) ==
    LET okQ == query = "" \/ includes(toLowerCase(row.title), query)
        okC == catVal = "" \/ trim(row.category) = catVal
    IN IF okQ /\ okC THEN "" ELSE "none"

\* the comparator of visible.sort: "less" for a negative result (a first),
\* "greater" for a positive one, "same" for zero and for NaN
Comparator(a, b, key) ==
    LET Sign(x, y) == IF x < y THEN "less" ELSE IF x > y THEN "greater" ELSE "same"
        aRev == parseMoney(a.rev)
        bRev == parseMoney(b.rev)
    IN CASE key = "p20" -> Sign(parsePct(b.p20), parsePct(a.p20))
         [] key = "rev" -> IF IsNone(aRev) \/ IsNone(bRev) THEN "same"
                           ELSE Sign(Val(aRev), Val(bRev))
         [] key = "rev_desc" -> IF IsNone(aRev) \/ IsNone(bRev) THEN "same"
                                ELSE Sign(Val(bRev), Val(aRev))
         [] OTHER -> Sign(parsePct(b.p10), parsePct(a.p10))

\* a comparator that equates NaN with two amounts that differ is not a consistent
\* one, and Array.prototype.sort then leaves the order to the implementation
Consistent(rows, key) ==
    \A i, j, k \in 1..Len(rows) :
        (Comparator(rows[i], rows[j], key) = "same" /\ Comparator(rows[j], rows[k], key) = "same")
            => Comparator(rows[i], rows[k], key) = "same"

RECURSIVE InsertRow(_, _, _, _)
\* x put before the first row, from index i on, that the comparator places after it
InsertRow(sorted, x, key, i) ==
    IF i > Len(sorted) THEN Append(sorted, x)
    ELSE IF Comparator(x, sorted[i], key) = "less"
         THEN SubSeq(sorted, 1, i - 1) \o <<x>> \o SubSeq(sorted, i, Len(sorted))
         ELSE InsertRow(sorted, x, key, i + 1)

RECURSIVE SortRows(_, _, _, _)
\* the stable sort of todo[i..] into acc
SortRows(todo, key, i, acc) ==
    IF i > Len(todo) THEN acc
    ELSE Bind(InsertRow(acc, todo[i], key, 1), LAMBDA acc2 : SortRows(todo, key, i + 1, acc2))

\* every order of the rows
Orders(rows) ==
    {[i \in 1..Len(rows) |-> rows[f[i]]] :
        f \in {g \in [1..Len(rows) -> 1..Len(rows)] :
                  \A i, j \in 1..Len(rows) : g[i] = g[j] => i = j}}

\* visible.sort(...): the orders the sort may leave
ArraySort(rows, key) ==
    IF Consistent(rows, key) THEN {SortRows(rows, key, 1, <<>>)} ELSE Orders(rows)

\* the rows of a sequence with the given display, in their order
WithDisplay(rows, shown) ==
    SelectSeq(rows, LAMBDA r : (r.display # "none") = shown)

apply_leaves_hidden_in_place(doc) ==
    Bind([i \in 1..Len(doc.tbody) |->
             [doc.tbody[i] EXCEPT
                 !.display = Display(doc.tbody[i], toLowerCase(trim(doc.q)), doc.cat)]],
         LAMBDA rows :
             {[doc EXCEPT !.tbody = WithDisplay(rows, FALSE) \o visible] :
                 visible \in ArraySort(WithDisplay(rows, TRUE), doc.sort)})

\* apply(): the documents it may leave. The rows get their display from the
\* filter, the visible ones are sorted and appended to the table body, which
\* moves them, then the hidden ones are appended in the order they had.
apply(doc) ==
    Bind([i \in 1..Len(doc.tbody) |->
             [doc.tbody[i] EXCEPT
                 !.display = Display(doc.tbody[i], toLowerCase(trim(doc.q)), doc.cat)]],
         LAMBDA rows :
             {[doc EXCEPT !.tbody = visible \o WithDisplay(rows, FALSE)] :
                 visible \in ArraySort(WithDisplay(rows, TRUE), doc.sort)})

MaxRows == 3

\* records of a run: complete ones, one whose pool is 0, one that is bare
TableComps ==
    { [Competition("cash", "https://click.uk/competition/a/") EXCEPT
          !.title = Some("Win Cash"), !.ticket_price_gbp = Some(100),
          !.tickets_available = Some(20)],
      [Competition("cars", "https://click.uk/competition/b/") EXCEPT
          !.title = Some("Car One"), !.ticket_price_gbp = Some(2000),
          !.tickets_available = Some(20)],
      [Competition("cash", "https://click.uk/competition/d/") EXCEPT
          !.title = Some("Cash car"), !.ticket_price_gbp = Some(150),
          !.tickets_available = Some(0)],
      Competition("cars", "https://click.uk/competition/c/") }

\* what a visitor types into the search box
Queries == {"", " Car ", "uk"}

\* the options of the sort select
SortOptions == {"p10", "p20", "rev", "rev_desc"}

\* the options of the category select: "All categories" and the table's categories
CatOptions(doc) == {""} \cup {trim(doc.tbody[i].category) : i \in 1..Len(doc.tbody)}

InitReport ==
    /\ MainIdle
    /\ call = [fn |-> "report"]
    /\ \E cs \in SeqsUpTo(TableComps, MaxRows) :
           /\ \A i, j \in 1..Len(cs) : cs[i] = cs[j] => i = j
           /\ document = write_html(cs)
    /\ ret = None

\* q.addEventListener('input', apply)
InputQuery ==
    /\ call.fn = "report"
    /\ \E v \in Queries \ {document.q} :
           document' \in apply([document EXCEPT !.q = v])
    /\ UNCHANGED <<call, ret, mainVars>>

\* cat.addEventListener('change', apply)
ChangeCat ==
    /\ call.fn = "report"
    /\ \E v \in CatOptions(document) \ {document.cat} :
           document' \in apply([document EXCEPT !.cat = v])
    /\ UNCHANGED <<call, ret, mainVars>>

\* sort.addEventListener('change', apply)
ChangeSort ==
    /\ call.fn = "report"
    /\ \E v \in SortOptions \ {document.sort} :
           document' \in apply([document EXCEPT !.sort = v])
    /\ UNCHANGED <<call, ret, mainVars>>

NextReport == InputQuery \/ ChangeCat \/ ChangeSort

SpecReport == InitReport /\ [][NextReport]_vars

----------------------------------------------------------------------------
(* main(): the loop over the categories, the loop over each category's     *)
(* links, the combined export.  Every fetch either raises or returns a     *)
(* document; the Playwright extraction either raises or returns a record.  *)

MaxCategories == 2

\* the values of --max-per-category: 0 (all found) and a limit of one
Limits == {0, 1}

CategoryArgs ==
    { <<"cash", "https://click.uk/competition-category/cash/">>,
      <<"cars", "https://click.uk/competition-category/cars">> }

\* the listing documents a fetch may return
ListingSoups ==
    { {},
      {"/competition/a/", "/about/"},
      {"/competition/a?ref=x", "/competition/b#top", "https://other.uk/competition/c/"} }

PageFull ==
    Page(Some("win a car"), Some(50), Some(100), Some(<<3, 200>>), Some(100000),
         Some("sunday 8pm"), Some("friday 6pm"))

PageNoTitle == Page(None, Some(50), Some(100), None, None, None, None)

PageSoldOnly == Page(Some("win cash"), Some(33), None, Some(<<3, 200>>), None, None, None)

PageEmpty == Page(None, None, None, None, None, None, None)

\* the detail documents a fetch may return
DetailSoups == {PageSoldOnly, PageNoTitle}

\* the texts the rendered page may have
RenderedPages == {PageFull, PageEmpty}

cat_name == category[ci][1]

cat_url == category[ci][2]

url == comp_links[li]

LimitLinksTakesLast(links, limit) ==
    IF limit # 0 /\ limit > 0
    THEN SubSeq(links, Len(links) - Min(limit, Len(links)) + 1, Len(links))
    ELSE links

\* comp_links[: args.max_per_category] when the limit is set and positive
LimitLinks(links, limit) ==
    IF limit # 0 /\ limit > 0 THEN SubSeq(links, 1, Min(limit, Len(links))) ELSE links

\* the row the exporters shape from one record
Row(c) ==
    [comp |-> c,
     odds_per_ticket |-> odds_per_ticket(c),
     win_prob_for_10gbp |-> win_probability_for_spend(c, Spend10),
     win_prob_for_20gbp |-> win_probability_for_spend(c, Spend20),
     company_revenue_gbp |-> company_revenue_gbp(c)]

Rows(cs) == [i \in 1..Len(cs) |-> Row(cs[i])]

Init ==
    /\ category \in SeqsUpTo(CategoryArgs, MaxCategories) \ {<<>>}
    /\ use_playwright \in BOOLEAN
    /\ max_per_category \in Limits
    /\ pc = "category"
    /\ ci = 1
    /\ comp_links = <<>>
    /\ li = 1
    /\ comps = <<>>
    /\ all_comps = <<>>
    /\ out = None
    /\ session = <<>>
    /\ step = [kind |-> "none"]
    /\ discovered = <<>>
    /\ call = [fn |-> "main"]
    /\ ret = None
    /\ document = NoDocument

\* get_soup(cat_url) raises: nothing catches it, main() ends with the exception
ListingFetchFails ==
    /\ pc = "category"
    /\ ci <= Len(category)
    /\ session' = Append(session, cat_url)
    /\ step' = [kind |-> "listing", category |-> cat_name, fetched |-> FALSE,
                links |-> <<>>]
    /\ pc' = "crashed"
    /\ UNCHANGED <<category, use_playwright, max_per_category, ci, comp_links, li,
                   comps, all_comps, out, call, ret, document, discovered>>

NoLinksFoundBreaks ==
    /\ ci' = Len(category) + 1
    /\ pc' = "category"
    /\ UNCHANGED <<li, comps, all_comps>>

\* `if not comp_links: ... continue`
NoLinksFound ==
    /\ ci' = ci + 1
    /\ pc' = "category"
    /\ UNCHANGED <<li, comps, all_comps>>

\* the listing is fetched, its links extracted and limited
DiscoverLinks ==
    /\ pc = "category"
    /\ ci <= Len(category)
    /\ \E cat_soup \in ListingSoups :
       \E found \in {extract_competition_links_from_category(cat_url, cat_soup)} :
       \E links \in {LimitLinks(found, max_per_category)} :
            /\ discovered' = Append(discovered, found)
            /\ comp_links' = links
            /\ step' = [kind |-> "listing", category |-> cat_name, fetched |-> TRUE,
                        links |-> links]
            /\ IF links = <<>>
               THEN NoLinksFound
               ELSE /\ comps' = <<>>
                    /\ li' = 1
                    /\ pc' = "detail"
                    /\ UNCHANGED <<ci, all_comps>>
    /\ session' = Append(session, cat_url)
    /\ UNCHANGED <<category, use_playwright, max_per_category, out, call, ret, document>>

\* what one iteration of the inner loop does once it has its record
Collect(fetched, static, fallback, rendered, comp) ==
    /\ comps' = Append(comps, comp)
    /\ li' = li + 1
    /\ session' = Append(session, url)
    /\ step' = [kind |-> "detail", category |-> cat_name, url |-> url,
                fetched |-> fetched, static |-> static, fallback |-> fallback,
                rendered |-> rendered, collected |-> comp]
    /\ UNCHANGED <<category, use_playwright, max_per_category, pc, ci, comp_links,
                   all_comps, out, call, ret, document, discovered>>

DetailFetchDropsUrl ==
    /\ pc = "detail"
    /\ li <= Len(comp_links)
    /\ li' = li + 1
    /\ session' = Append(session, url)
    /\ step' = [kind |-> "detail", category |-> cat_name, url |-> url,
                fetched |-> FALSE, static |-> None, fallback |-> "none",
                rendered |-> None, collected |-> Competition(cat_name, url)]
    /\ UNCHANGED <<category, use_playwright, max_per_category, pc, ci, comp_links,
                   comps, all_comps, out, call, ret, document, discovered>>

\* get_soup(url) raises: the except branch appends Competition(cat_name, url)
DetailFetchFails ==
    /\ pc = "detail"
    /\ li <= Len(comp_links)
    /\ Collect(FALSE, None, "none", None, Competition(cat_name, url))

\* the static record is appended: the fallback is off or the record is complete
DetailStatic ==
    /\ pc = "detail"
    /\ li <= Len(comp_links)
    /\ \E soup \in DetailSoups :
         LET comp == extract_comp_details_static(cat_name, url, soup)
         IN /\ ~(use_playwright /\ ~is_comp_complete(comp))
            /\ Collect(TRUE, Some(comp), "none", None, comp)

\* the static record is incomplete and the Playwright extraction returns
DetailFallback ==
    /\ pc = "detail"
    /\ li <= Len(comp_links)
    /\ \E soup \in DetailSoups, page \in RenderedPages :
         LET comp == extract_comp_details_static(cat_name, url, soup)
             comp2 == extract_comp_details_playwright(cat_name, url, page)
         IN /\ use_playwright /\ ~is_comp_complete(comp)
            /\ Collect(TRUE, Some(comp), "ok", Some(comp2), comp2)

\* the static record is incomplete and the Playwright extraction raises: the
\* same except branch appends Competition(cat_name, url)
DetailFallbackFails ==
    /\ pc = "detail"
    /\ li <= Len(comp_links)
    /\ \E soup \in DetailSoups :
         LET comp == extract_comp_details_static(cat_name, url, soup)
         IN /\ use_playwright /\ ~is_comp_complete(comp)
            /\ Collect(TRUE, Some(comp), "failed", None, Competition(cat_name, url))

\* the inner loop is over: all_comps.extend(comps), next category
EndCategory ==
    /\ pc = "detail"
    /\ li > Len(comp_links)
    /\ all_comps' = all_comps \o comps
    /\ ci' = ci + 1
    /\ pc' = "category"
    /\ UNCHANGED <<category, use_playwright, max_per_category, comp_links, li, comps,
                   out, session, step, call, ret, document, discovered>>

\* the outer loop is over: write_csv, write_json, write_html on all_comps
Export ==
    /\ pc = "category"
    /\ ci > Len(category)
    /\ out' = Some([csv |-> Rows(all_comps), json |-> Rows(all_comps),
                    html |-> sorted_comps(all_comps)])
    /\ pc' = "done"
    /\ UNCHANGED <<category, use_playwright, max_per_category, ci, comp_links, li,
                   comps, all_comps, session, step, call, ret, document, discovered>>

Next ==
    \/ ListingFetchFails
    \/ DiscoverLinks
    \/ DetailFetchFails
    \/ DetailStatic
    \/ DetailFallback
    \/ DetailFallbackFails
    \/ EndCategory
    \/ Export

Spec == Init /\ [][Next]_vars

----------------------------------------------------------------------------
(* Claims about main(), checked under Spec *)

DetailStepDone == step.kind = "detail"

\* C1: when the Playwright extraction fails for a URL whose static extraction
\* succeeded but was incomplete, the record collected for the URL is the static
\* record, and the inner loop goes on to the next URL.
C1_FallbackFailureKeepsStatic ==
    (DetailStepDone /\ step.fallback = "failed") =>
        /\ step.collected = Val(step.static)
        /\ comps[Len(comps)] = Val(step.static)
        /\ pc = "detail"

\* C2: when the fetch of a detail page fails, the record collected for the URL
\* holds the category and the url and nothing else, and the loop goes on to the
\* next URL of the same category with the remaining URLs and categories left
\* to process.
C2_FetchFailureGivesBareRecord ==
    [][ (pc = "detail" /\ step'.kind = "detail" /\ session' # session
         /\ ~step'.fetched) =>
           /\ comps' = Append(comps,
                  [category |-> category[ci][1], url |-> comp_links[li],
                   title |-> None, ticket_price_gbp |-> None, draw_datetime |-> None,
                   sales_end_datetime |-> None, tickets_available |-> None,
                   tickets_sold |-> None, cash_alternative_gbp |-> None])
           /\ li' = li + 1
           /\ pc' = "detail"
           /\ UNCHANGED <<ci, comp_links, category, all_comps>> ]_vars

C2_Witness ==
    /\ pc = "done"
    /\ ~use_playwright
    /\ Len(category) = 2
    /\ \E i \in 1..(Len(all_comps) - 1) :
          /\ all_comps[i] = Competition(category[1][1], all_comps[i].url)
          /\ ~IsNone(all_comps[i + 1].title)
          /\ all_comps[i + 1].category = category[1][1]
    /\ all_comps[Len(all_comps)].category = category[2][1]

\* C3: whatever the fetches of the listing pages and of the detail pages do,
\* main() ends only after it has gone through every configured category and
\* written the combined CSV, JSON and HTML.
C3_RunReachesExport ==
    (pc \in {"done", "crashed"}) => (ci = Len(category) + 1 /\ ~IsNone(out))

\* C4: the Playwright extractor is invoked for a detail URL exactly when the
\* fallback is enabled and the static record lacks the title, or the price, or
\* both tickets_available and tickets_sold; when it is invoked and returns, the
\* collected record is its record, whole; when it is not invoked, the collected
\* record is the static record.
C4_FallbackGate ==
    (DetailStepDone /\ step.fetched) =>
        LET static == Val(step.static)
            complete == /\ static.title # None
                        /\ static.ticket_price_gbp # None
                        /\ (static.tickets_available # None \/ static.tickets_sold # None)
        IN /\ (step.fallback # "none") <=> (use_playwright /\ ~complete)
           /\ step.fallback = "ok" =>
                 /\ step.collected = Val(step.rendered)
                 /\ comps[Len(comps)] = Val(step.rendered)
           /\ step.fallback = "none" =>
                 /\ step.collected = static
                 /\ comps[Len(comps)] = static

C4_Witness ==
    /\ DetailStepDone
    /\ step.fetched
    /\ step.fallback = "ok"
    /\ ~IsNone(Val(step.static).ticket_price_gbp)
    /\ IsNone(step.collected.ticket_price_gbp)
    /\ comps[Len(comps)] = step.collected

\* C5: when the link discovery of a category returns no URLs, the category adds
\* no record, no detail page is fetched for it, and the outer loop goes on to
\* the next category in the state it would have without the empty category.
C5_EmptyCategorySkipped ==
    [][ (pc = "category" /\ step'.kind = "listing" /\ session' # session
         /\ step'.fetched /\ step'.links = <<>>) =>
           /\ all_comps' = all_comps
           /\ session' = Append(session, category[ci][2])
           /\ pc' = "category"
           /\ ci' = ci + 1
           /\ UNCHANGED <<category, use_playwright, max_per_category, out>> ]_vars

C5_Witness ==
    /\ pc = "done"
    /\ Len(category) = 2
    /\ Len(session) = 3
    /\ session[1] = category[1][2]
    /\ session[2] = category[2][2]
    /\ Len(all_comps) = 1
    /\ all_comps[1].category = category[2][1]

----------------------------------------------------------------------------
(* Claims about the link extractor, checked under SpecLinks *)

LinksReturned == call.fn = "extract_competition_links_from_category" /\ ret # None

Host(u) == urlparse(u, "").netloc

\* C6: no URL the link extractor returns contains "/competition-category/",
\* also when a relative href is resolved against a listing URL that has it.
C6_NoCategoryMarker ==
    LinksReturned =>
        \A i \in 1..Len(Val(ret)) : ~Contains(Val(ret)[i], CategoryMarker)

\* C7: the list the link extractor returns has no duplicates, is in ascending
\* lexicographic order, holds only URLs of the listing URL's host, and each URL
\* has no '?', no '#' and ends with exactly one '/'.
C7_LinksCanonicalSorted ==
    LinksReturned =>
        LET r == Val(ret)
        IN /\ \A i, j \in 1..Len(r) : i < j => r[i] # r[j]
           /\ \A i \in 1..(Len(r) - 1) : StrLess(r[i], r[i + 1])
           /\ \A i \in 1..Len(r) :
                 /\ Host(r[i]) = Host(call.category_url)
                 /\ ~Contains(r[i], "?")
                 /\ ~Contains(r[i], "#")
                 /\ Ch(r[i], Len(r[i])) = "/"
                 /\ Ch(r[i], Len(r[i]) - 1) # "/"

C7_Witness ==
    /\ LinksReturned
    /\ {"/competition/a?ref=x", "https://click.uk/competition/b//",
        "//click.uk/competition/f"} \subseteq call.soup
    /\ Val(ret) = << "https://click.uk/competition/a/", "https://click.uk/competition/b/",
                     "https://click.uk/competition/f/" >>

----------------------------------------------------------------------------
(* Claims about the metric functions, checked under SpecMetrics *)

MetricReturned(fn) == call.fn = fn /\ ret # None

Missing(x) == IsNone(x)

MissingOrNonPositive(x) == IsNone(x) \/ Val(x) <= 0

\* C8 as stated: each of the three metric functions returns None whenever an
\* input it requires is missing or <= 0.
C8_UnknownOnMissingOrNonPositive ==
    /\ MetricReturned("odds_per_ticket") =>
          (MissingOrNonPositive(call.comp.tickets_available) => Val(ret) = None)
    /\ MetricReturned("win_probability_for_spend") =>
          ((\/ MissingOrNonPositive(call.comp.ticket_price_gbp)
            \/ MissingOrNonPositive(call.comp.tickets_available)) => Val(ret) = None)
    /\ MetricReturned("company_revenue_gbp") =>
          ((\/ MissingOrNonPositive(call.comp.ticket_price_gbp)
            \/ MissingOrNonPositive(call.comp.tickets_available)) => Val(ret) = None)

\* C8 amended: odds_per_ticket and win_probability_for_spend return None whenever
\* an input they require is missing or <= 0; company_revenue_gbp returns None
\* whenever the price or tickets_available is missing, and the product of the
\* two whenever both are present, a zero included.  So all three return None
\* when tickets_available is unset, and company_revenue_gbp returns None when
\* the price is missing although the pool is present.
C8_UnknownOnMissing ==
    /\ MetricReturned("odds_per_ticket") =>
          (MissingOrNonPositive(call.comp.tickets_available) => Val(ret) = None)
    /\ MetricReturned("win_probability_for_spend") =>
          ((\/ MissingOrNonPositive(call.comp.ticket_price_gbp)
            \/ MissingOrNonPositive(call.comp.tickets_available)) => Val(ret) = None)
    /\ MetricReturned("company_revenue_gbp") =>
          IF Missing(call.comp.ticket_price_gbp) \/ Missing(call.comp.tickets_available)
          THEN Val(ret) = None
          ELSE Val(ret) = Some(Val(call.comp.ticket_price_gbp)
                               * Val(call.comp.tickets_available))

C8_Witness ==
    /\ MetricReturned("company_revenue_gbp")
    /\ Missing(call.comp.ticket_price_gbp)
    /\ call.comp.tickets_available = Some(40)
    /\ Val(ret) = None

\* C9: for a record with a positive price and a positive tickets_available,
\* win_probability_for_spend does not decrease when the spend grows, lies
\* between 0 and 1, and is 0 (not None) when the spend is below the price.
C9_WinProbabilityMonotone ==
    (/\ MetricReturned("win_probability_for_spend")
     /\ ~MissingOrNonPositive(call.comp.ticket_price_gbp)
     /\ ~MissingOrNonPositive(call.comp.tickets_available)) =>
        /\ Val(ret) # None
        /\ LET p == Val(Val(ret))
           IN /\ p.den > 0
              /\ 0 <= p.num
              /\ p.num <= p.den
              /\ call.spend_gbp < Val(call.comp.ticket_price_gbp) => p.num = 0
              /\ \A s \in Spends :
                    s <= call.spend_gbp =>
                       LET q == win_probability_for_spend(call.comp, s)
                       IN q # None /\ Val(q).num * p.den <= p.num * Val(q).den

C9_Witness ==
    /\ MetricReturned("win_probability_for_spend")
    /\ call.comp.ticket_price_gbp = Some(30)
    /\ call.comp.tickets_available = Some(3)
    /\ call.spend_gbp = 120
    /\ Val(ret) = Some(Frac(3, 3))

----------------------------------------------------------------------------
(* Claims about the report's ordering, checked under SpecHtml *)

\* the win probability at a spend of 10 pounds, None counting as 0
P10(c) ==
    LET p == win_probability_for_spend(c, Spend10)
    IN IF IsNone(p) THEN Frac(0, 1) ELSE Val(p)

\* a <= b for revenues, None counting as +infinity
RevLeq(a, b) == IsNone(b) \/ (~IsNone(a) /\ Val(a) <= Val(b))

Count(q, x) == Cardinality({k \in 1..Len(q) : q[k] = x})

\* C10: the report lists the records by descending win probability at a spend
\* of 10 (None counting as 0) and, among records of equal probability, by
\* ascending company revenue (None counting as +infinity, last); keys of
\* 20%/50, 20%/200 and 5%/100 come in that order; the list is a permutation of
\* the records given.
C10_ReportOrder ==
    (call.fn = "write_html" /\ ret # None) =>
        LET given == call.comps
            listed == Val(ret)
        IN /\ Len(listed) = Len(given)
           /\ \A k \in 1..Len(given) : Count(listed, given[k]) = Count(given, given[k])
           /\ \A a, b \in 1..Len(listed) :
                 a < b =>
                    /\ FracLeq(P10(listed[b]), P10(listed[a]))
                    /\ FracEq(P10(listed[a]), P10(listed[b])) =>
                          RevLeq(company_revenue_gbp(listed[a]),
                                 company_revenue_gbp(listed[b]))
           /\ KeyLess([neg_p10 |-> Frac(-20, 100), rev_val |-> Some(50)],
                      [neg_p10 |-> Frac(-20, 100), rev_val |-> Some(200)])
           /\ KeyLess([neg_p10 |-> Frac(-20, 100), rev_val |-> Some(200)],
                      [neg_p10 |-> Frac(-5, 100), rev_val |-> Some(100)])

C10_Witness ==
    /\ call.fn = "write_html"
    /\ ret # None
    /\ Len(Val(ret)) = 3
    /\ Val(ret) # call.comps
    /\ FracEq(P10(Val(ret)[1]), P10(Val(ret)[2]))
    /\ ~FracLeq(P10(Val(ret)[2]), P10(Val(ret)[3]))
    /\ Val(company_revenue_gbp(Val(ret)[1])) < Val(company_revenue_gbp(Val(ret)[2]))
    /\ IsNone(company_revenue_gbp(Val(ret)[3]))

----------------------------------------------------------------------------
(* Claims about the ticket rules, checked under SpecExtract *)

Extracted ==
    /\ call.fn \in {"extract_comp_details_static", "extract_comp_details_playwright"}
    /\ ret # None

\* the first line of the page, in text order, that carries the field
FirstWith(lines, field) ==
    LET idx == {i \in 1..Len(lines) : lines[i][field] # None}
    IN IF idx = {} THEN None
       ELSE lines[CHOOSE i \in idx : \A j \in idx : i <= j][field]

\* C11: "Tickets Sold: X of Y" sets tickets_sold to X, and tickets_available to Y
\* only if "N tickets available" did not set it: with both patterns in the text
\* tickets_available is N, with the sold pattern alone it is Y, with neither
\* both fields are absent.
C11_SoldRuleFillsOnlyUnset ==
    Extracted =>
        LET comp == Val(ret)
            n == FirstWith(call.lines, "avail")
            xy == FirstWith(call.lines, "sold")
        IN /\ (n # None /\ xy # None) =>
                 /\ comp.tickets_available = n
                 /\ comp.tickets_sold = Some(Val(xy)[1])
           /\ (n = None /\ xy # None) =>
                 /\ comp.tickets_available = Some(Val(xy)[2])
                 /\ comp.tickets_sold = Some(Val(xy)[1])
           /\ (n = None /\ xy = None) =>
                 /\ comp.tickets_available = None
                 /\ comp.tickets_sold = None

C11_Witness ==
    /\ Extracted
    /\ Len(call.lines) = 2
    /\ call.lines[1].line = "Tickets Sold: 3 of 200"
    /\ call.lines[2].line = "0 tickets available"
    /\ Val(ret).tickets_available = Some(0)
    /\ Val(ret).tickets_sold = Some(3)

----------------------------------------------------------------------------
(* Claims about the report's script, checked under SpecReport *)

\* the cells of a row, its display left out
Cells(row) == [row EXCEPT !.display = ""]

\* the index of the element tr in a table body
IndexOf(tbody, tr) == CHOOSE i \in 1..Len(tbody) : tbody[i].tr = tr

\* the row passes the filters the controls of doc hold
Matches(row, doc) ==
    /\ \/ trim(doc.q) = ""
       \/ includes(toLowerCase(row.title), toLowerCase(trim(doc.q)))
    /\ doc.cat = "" \/ row.category = doc.cat

\* C12: whatever filter or sort change runs apply(), the table body holds exactly
\* the rows it held before (none lost, none duplicated), a row is visible exactly
\* when it matches the current filters, every visible row precedes every hidden
\* one, and the hidden rows are in the relative order they had before the step.
C12_ApplyKeepsRows ==
    [][document' # document =>
        LET old == document.tbody
            new == document'.tbody
        IN /\ Len(new) = Len(old)
           /\ \A i, j \in 1..Len(new) : new[i].tr = new[j].tr => i = j
           /\ \A i \in 1..Len(old) : \E j \in 1..Len(new) : Cells(new[j]) = Cells(old[i])
           /\ \A j \in 1..Len(new) :
                  new[j].display = (IF Matches(new[j], document') THEN "" ELSE "none")
           /\ \A i, j \in 1..Len(new) :
                  (i < j /\ new[i].display = "none") => new[j].display = "none"
           /\ \A i, j \in 1..Len(new) :
                  (i < j /\ new[i].display = "none" /\ new[j].display = "none")
                      => IndexOf(old, new[i].tr) < IndexOf(old, new[j].tr)]_vars

C12_Witness ==
    /\ call.fn = "report"
    /\ Len(document.tbody) = 3
    /\ document.q = " Car "
    /\ document.sort = "rev_desc"
    /\ document.tbody[1].display = ""
    /\ document.tbody[2].display = ""
    /\ document.tbody[3].display = "none"
    /\ document.tbody[3].tr = 1
    /\ document.tbody[1].tr = 3

----------------------------------------------------------------------------
(* Claims about the records a run exports, checked under Spec *)

\* the first limit links of a category, all of them when the limit is 0
Kept(links, limit) ==
    [i \in 1..(IF limit = 0 \/ Len(links) <= limit THEN Len(links) ELSE limit) |-> links[i]]

RECURSIVE Encounter(_, _, _, _)
\* the (category label, url) pairs of categories k.. in encounter order
Encounter(cats, found, limit, k) ==
    IF k > Len(cats) THEN <<>>
    ELSE [i \in 1..Len(Kept(found[k], limit)) |-> <<cats[k][1], Kept(found[k], limit)[i]>>]
             \o Encounter(cats, found, limit, k + 1)

\* the (category, url) pairs of exported rows
Labels(rows) == [i \in 1..Len(rows) |-> <<rows[i].comp.category, rows[i].comp.url>>]

\* C13: the records handed to the exporters are one per discovered detail URL
\* kept by the per-category limit (the first limit links of the sorted extractor
\* output, all of them when the limit is 0), categories in configured order and
\* URLs in the extractor's order, whether or not a URL's fetch or extraction
\* failed, each with the category label and URL it was created for.
C13_OneRecordPerKeptLink ==
    pc = "done" =>
        /\ Len(discovered) = Len(category)
        /\ \A k \in 1..Len(discovered) : \A i \in 1..(Len(discovered[k]) - 1) :
               StrLess(discovered[k][i], discovered[k][i + 1])
        /\ Labels(Val(out).csv) = Encounter(category, discovered, max_per_category, 1)
        /\ Labels(Val(out).json) = Encounter(category, discovered, max_per_category, 1)
        /\ [i \in 1..Len(all_comps) |-> <<all_comps[i].category, all_comps[i].url>>]
               = Encounter(category, discovered, max_per_category, 1)

C13_Witness ==
    /\ pc = "done"
    /\ max_per_category = 1
    /\ Len(category) = 2
    /\ Len(discovered[1]) = 2
    /\ discovered[2] # <<>>
    /\ Len(Val(out).csv) = 2
    /\ Val(out).csv[1].comp = Competition(category[1][1], discovered[1][1])
    /\ Val(out).csv[2].comp.tickets_sold # None

====
